---- MODULE Spec2Model ----
(***************************************************************************)
(* Model of the Wio-E5 LoRa gateway sketch (src/Wio_E5_LORA/Wio_E5_LORA.ino)*)
(*                                                                         *)
(*   - the UART receive callback onUartReceive (line framer + validation)  *)
(*   - the main context: setup -> InitLora -> loop, sendCommand            *)
(*   - parseAndStoreNodeResponse / findOrCreateNode (hex parser, registry) *)
(*   - sendNodeStatusCommand / LoraRXMode                                  *)
(*                                                                         *)
(* Arduino Strings are sequences of one-character strings; indices are     *)
(* 0-based as in the source and converted where Sequences needs 1-based.   *)
(***************************************************************************)
EXTENDS Integers, Sequences, FiniteSets, TLC

VARIABLES
    uart_rx,             \* bytes still to be delivered by the Wio-E5 UART
    rx,                  \* bytes already read by onUartReceive (WioE5.read())
    command_data,        \* String command_data
    command_receiving,   \* volatile uint8_t command_receiving
    command_ready,       \* volatile uint8_t command_ready
    waitingForResponse,  \* bool waitingForResponse
    hpc,                 \* position inside an onUartReceive invocation
    SerialOut,           \* lines printed on Serial, oldest first
    tx,                  \* strings printed on WioE5, oldest first
    pc,                  \* position of the main context (setup/InitLora/loop)
    now,                 \* millis()
    commandSentTime,     \* unsigned long commandSentTime
    issueTime,           \* millis() at the last call of sendCommand, -1 before
    NodeData,            \* ReceiveData NodeData[MAX_NODE]
    rawData,             \* argument of the last parseAndStoreNodeResponse call
    result,              \* its return value
    op                   \* the operation that acted last

vars == << uart_rx, rx, command_data, command_receiving, command_ready,
           waitingForResponse, hpc, SerialOut, tx, pc, now, commandSentTime, issueTime,
           NodeData, rawData, result, op >>

framerVars == << uart_rx, rx, command_data, command_receiving, command_ready,
                 waitingForResponse, hpc >>
mainVars == << tx, pc, now, commandSentTime, issueTime >>
parserVars == << NodeData, rawData, result >>

----------------------------------------------------------------------------
(* Bounds and constants *)

\* longest byte stream the UART delivers in one behaviour
MaxRx == 5

\* millis() up to which loop() is followed
MaxMillis == 14000

\* number of sendNodeStatusCommand calls followed
MaxStatusCalls == 1

\* const unsigned long RESPONSE_TIMEOUT
RESPONSE_TIMEOUT == 10000

\* the maximum line length configured for the framer (spec.md 4.1); the
\* sketch defines no such limit, the value is only what the framer's length
\* properties are stated against
MaxLineLen == 2

\* #define MAX_NODE 3
MAX_NODE == 3

----------------------------------------------------------------------------
(* Strings *)

\* Bytes the UART delivers in the exhaustive streams
Bytes == { "+", "\n", "\r", "a" }

RECURSIVE SeqsUpTo(_, _)
SeqsUpTo(S, n) ==
    IF n = 0 THEN { << >> }
    ELSE LET shorter == SeqsUpTo(S, n - 1)
         IN  shorter \cup { Append(s, c) : s \in { t \in shorter : Len(t) = n - 1 }, c \in S }

\* String::indexOf(char): 0-based index of the first occurrence, -1 if none
IndexOf(s, c) ==
    LET at == { i \in 1..Len(s) : s[i] = c }
    IN  IF at = {} THEN -1 ELSE (CHOOSE i \in at : \A j \in at : i <= j) - 1

\* String::lastIndexOf(char): 0-based index of the last occurrence, -1 if none
LastIndexOf(s, c) ==
    LET at == { i \in 1..Len(s) : s[i] = c }
    IN  IF at = {} THEN -1 ELSE (CHOOSE i \in at : \A j \in at : i >= j) - 1

\* whether pat occurs in s at 0-based offset k
OccursAt(s, pat, k) ==
    /\ k >= 0
    /\ k + Len(pat) <= Len(s)
    /\ \A j \in 1..Len(pat) : s[k + j] = pat[j]

\* String::indexOf(String): 0-based index of the first occurrence, -1 if none
IndexOfStr(s, pat) ==
    IF \E k \in 0..Len(s) : OccursAt(s, pat, k)
    THEN CHOOSE k \in 0..Len(s) :
            OccursAt(s, pat, k) /\ \A j \in 0..(k - 1) : ~OccursAt(s, pat, j)
    ELSE -1

\* String::substring(left, right): characters left..right-1 (0-based),
\* arguments swapped when left > right, right clamped to the length
Substring(s, left, right) ==
    LET l == IF left > right THEN right ELSE left
        r0 == IF left > right THEN left ELSE right
        r == IF r0 > Len(s) THEN Len(s) ELSE r0
    IN  IF l >= Len(s) THEN << >> ELSE SubSeq(s, l + 1, r)

----------------------------------------------------------------------------
(* UART receive callback *)

\* the marker the validation looks for: "\"59"
ValidMarker == << "\"", "5", "9" >>

\* FrameByte without the test of command_receiving: bytes are accumulated and
\* an end marker completes a line whether or not a start marker was seen
FrameByte_IgnoresReceiving(c, data, receiving, ready) ==
    LET data1 == IF c = "+" THEN << >> ELSE data
        recv1 == IF c = "+" THEN 1 ELSE receiving
    IN  IF c = "\n"
        THEN [data |-> data1, receiving |-> 0, ready |-> 1, printed |-> TRUE]
        ELSE [data |-> Append(data1, c), receiving |-> recv1, ready |-> ready,
              printed |-> FALSE]

\* FrameByte that keeps the start marker out of the buffer
FrameByte_DropsMarker(c, data, receiving, ready) ==
    LET data1 == IF c = "+" THEN << >> ELSE data
        recv1 == IF c = "+" THEN 1 ELSE receiving
    IN  IF recv1 # 0
        THEN IF c = "\n"
             THEN [data |-> data1, receiving |-> 0, ready |-> 1, printed |-> TRUE]
             ELSE [data |-> IF c = "+" THEN data1 ELSE Append(data1, c),
                   receiving |-> recv1, ready |-> ready, printed |-> FALSE]
        ELSE [data |-> data1, receiving |-> recv1, ready |-> ready, printed |-> FALSE]

\* FrameByte that does not reset the buffer on a start marker
FrameByte_NoReset(c, data, receiving, ready) ==
    LET recv1 == IF c = "+" THEN 1 ELSE receiving
    IN  IF recv1 # 0
        THEN IF c = "\n"
             THEN [data |-> data, receiving |-> 0, ready |-> 1, printed |-> TRUE]
             ELSE [data |-> Append(data, c), receiving |-> recv1, ready |-> ready,
                   printed |-> FALSE]
        ELSE [data |-> data, receiving |-> recv1, ready |-> ready, printed |-> FALSE]

\* lines 75-91: start marker, accumulation, end of line.
\* Returns the new buffer and flags and whether a line was printed.
FrameByte(c, data, receiving, ready) ==
    LET data1 == IF c = "+" THEN << >> ELSE data
        recv1 == IF c = "+" THEN 1 ELSE receiving
    IN  IF recv1 # 0
        THEN IF c = "\n"
             THEN [data |-> data1, receiving |-> 0, ready |-> 1, printed |-> TRUE]
             ELSE [data |-> Append(data1, c), receiving |-> recv1, ready |-> ready,
                   printed |-> FALSE]
        ELSE [data |-> data1, receiving |-> recv1, ready |-> ready, printed |-> FALSE]

\* ValidateResponse leaving the ready flag of a rejected line set
ValidateResponse_KeepsRejected(data, ready, waiting) ==
    IF ready # 0
    THEN IF IndexOfStr(data, ValidMarker) = 10
         THEN [ready |-> 1, waiting |-> FALSE]
         ELSE [ready |-> ready, waiting |-> waiting]
    ELSE [ready |-> ready, waiting |-> waiting]

\* ValidateResponse discarding the line it accepts
ValidateResponse_ClearsReady(data, ready, waiting) ==
    IF ready # 0
    THEN IF IndexOfStr(data, ValidMarker) = 10
         THEN [ready |-> 0, waiting |-> FALSE]
         ELSE [ready |-> 0, waiting |-> waiting]
    ELSE [ready |-> ready, waiting |-> waiting]

\* lines 93-103: validation of the buffer while command_ready is set.
\* Returns the new command_ready and waitingForResponse.
ValidateResponse(data, ready, waiting) ==
    IF ready # 0
    THEN IF IndexOfStr(data, ValidMarker) = 10
         THEN [ready |-> 1, waiting |-> FALSE]
         ELSE [ready |-> 0, waiting |-> waiting]
    ELSE [ready |-> ready, waiting |-> waiting]

\* void onUartReceive(): one invocation reads one byte
onUartReceive ==
    /\ uart_rx # << >>
    /\ LET c == Head(uart_rx)
           f == FrameByte(c, command_data, command_receiving, command_ready)
           v == ValidateResponse(f.data, f.ready, waitingForResponse)
       IN  /\ uart_rx' = Tail(uart_rx)
           /\ rx' = Append(rx, c)
           /\ command_data' = f.data
           /\ command_receiving' = f.receiving
           /\ command_ready' = v.ready
           /\ waitingForResponse' = v.waiting
           /\ SerialOut' = IF f.printed
                           THEN Append(SerialOut, [prefix |-> "Wio-E5: ", text |-> f.data])
                           ELSE SerialOut
    /\ op' = "onUartReceive"
    /\ UNCHANGED << hpc, mainVars, parserVars >>

\* onUartReceive in the two parts another task can run between: lines 73-91
\* (read, start marker, accumulation, end of line) ...
onUartReceive_Frame ==
    /\ hpc = "idle"
    /\ uart_rx # << >>
    /\ LET c == Head(uart_rx)
           f == FrameByte(c, command_data, command_receiving, command_ready)
       IN  /\ uart_rx' = Tail(uart_rx)
           /\ rx' = Append(rx, c)
           /\ command_data' = f.data
           /\ command_receiving' = f.receiving
           /\ command_ready' = f.ready
           /\ SerialOut' = IF f.printed
                           THEN Append(SerialOut, [prefix |-> "Wio-E5: ", text |-> f.data])
                           ELSE SerialOut
    /\ hpc' = "validate"
    /\ op' = "onUartReceive_Frame"
    /\ UNCHANGED << waitingForResponse, mainVars, parserVars >>

\* ... and lines 93-103 (validation), after which the invocation returns
onUartReceive_Validate ==
    /\ hpc = "validate"
    /\ LET v == ValidateResponse(command_data, command_ready, waitingForResponse)
       IN  /\ command_ready' = v.ready
           /\ waitingForResponse' = v.waiting
    /\ hpc' = "idle"
    /\ op' = "onUartReceive"
    /\ UNCHANGED << uart_rx, rx, command_data, command_receiving, SerialOut,
                    mainVars, parserVars >>

----------------------------------------------------------------------------
(* Main context *)

\* sendCommand without the second WioE5.print
sendCommandTx_NoTerminator(t, cmd) == Append(t, cmd)

\* void sendCommand(String cmd): what it appends to Serial and to WioE5
sendCommandSerial(out, cmd) == Append(out, [prefix |-> "Sending: ", text |-> cmd])
sendCommandTx(t, cmd) == Append(Append(t, cmd), "\r\n")

\* the commands of InitLora, in order, and the position after each
InitLoraCmd ==
    [ InitLora_1 |-> "AT",
      InitLora_2 |-> "AT+MODE=TEST",
      InitLora_3 |-> "AT+TEST=RFCFG,866,SF12,125,10,10,22,ON,OFF,OFF" ]
InitLoraNext ==
    [ InitLora_1 |-> "InitLora_2", InitLora_2 |-> "InitLora_3", InitLora_3 |-> "loop" ]

\* setup() -> InitLora(): one sendCommand per step, with the delay(500)
\* that ends sendCommand and the delay(10) that follows it in InitLora.
\* sendCommand assigns neither waitingForResponse nor commandSentTime.
InitLora ==
    /\ pc \in DOMAIN InitLoraCmd
    /\ tx' = sendCommandTx(tx, InitLoraCmd[pc])
    /\ SerialOut' = sendCommandSerial(SerialOut, InitLoraCmd[pc])
    /\ pc' = InitLoraNext[pc]
    /\ issueTime' = now
    /\ now' = now + 500 + 10
    /\ op' = "sendCommand"
    /\ UNCHANGED << framerVars, parserVars, commandSentTime >>

\* loop() polling the ready flag and consuming it
Loop_ConsumesReady ==
    /\ pc = "loop"
    /\ now + 1000 <= MaxMillis
    /\ now' = now + 1000
    /\ command_ready' = 0
    /\ op' = "loop"
    /\ UNCHANGED << uart_rx, rx, command_data, command_receiving, waitingForResponse,
                    hpc, parserVars, SerialOut, tx, pc, commandSentTime, issueTime >>

\* void loop(): delay(1000) and nothing else
Loop ==
    /\ pc = "loop"
    /\ now + 1000 <= MaxMillis
    /\ now' = now + 1000
    /\ op' = "loop"
    /\ UNCHANGED << framerVars, parserVars, SerialOut, tx, pc, commandSentTime, issueTime >>

\* the digits printf's %x and Print::println(n, HEX) write
LowerHexDigits == << "0", "1", "2", "3", "4", "5", "6", "7",
                     "8", "9", "a", "b", "c", "d", "e", "f" >>
UpperHexDigits == << "0", "1", "2", "3", "4", "5", "6", "7",
                     "8", "9", "A", "B", "C", "D", "E", "F" >>

\* a number in base 16 with the given digits, no leading zeros, no padding:
\* what "%x" (lower case) and println(n, HEX) (upper case) write
RECURSIVE PrintBase16(_, _)
PrintBase16(n, digits) ==
    IF n < 16 THEN digits[n + 1]
    ELSE PrintBase16(n \div 16, digits) \o digits[(n % 16) + 1]

\* sprintf(payload, "AT+TEST=TXLRPKT,5A%x%x%x", NodeId, 0x11, 0x12)
StatusPayload(NodeId) ==
    "AT+TEST=TXLRPKT,5A" \o PrintBase16(NodeId, LowerHexDigits)
                         \o PrintBase16(17, LowerHexDigits)
                         \o PrintBase16(18, LowerHexDigits)

\* the command of LoraRXMode
LoraRXModeCmd == "AT+TEST=RXLRPKT"

\* uint8_t NodeId
NodeIds == 0..255

\* void sendNodeStatusCommand(uint8_t NodeId), called once setup() has
\* returned: sendCommand(payload), the print of the node, delay(700),
\* LoraRXMode() (sendCommand and delay(10)), delay(500)
sendNodeStatusCommand(NodeId) ==
    /\ pc = "loop"
    /\ Len(tx) < 6 + 4 * MaxStatusCalls
    /\ tx' = sendCommandTx(sendCommandTx(tx, StatusPayload(NodeId)), LoraRXModeCmd)
    /\ SerialOut' = sendCommandSerial(
                        Append(sendCommandSerial(SerialOut, StatusPayload(NodeId)),
                               [prefix |-> "Sent status to Robot ",
                                text |-> PrintBase16(NodeId, UpperHexDigits)]),
                        LoraRXModeCmd)
    /\ issueTime' = now + 500 + 700
    /\ now' = now + 500 + 700 + 500 + 10 + 500
    /\ op' = "sendNodeStatusCommand"
    /\ UNCHANGED << framerVars, parserVars, pc, commandSentTime >>

SendNodeStatusCall == \E NodeId \in NodeIds : sendNodeStatusCommand(NodeId)

----------------------------------------------------------------------------
(* Node registry and hex packet parser *)

\* struct ReceiveData with its default member initialisers
EmptyRecord ==
    [ responseId |-> 0, nodeId |-> 0, param_1 |-> 0, param_2 |-> 0,
      param_3 |-> 0, param_4 |-> 0, param_5 |-> 0, param_6 |-> 0 ]

Slots == 0..(MAX_NODE - 1)

\* the lowest slot of a non-empty set of slots: the one a for loop over
\* 0..MAX_NODE-1 reaches first
FirstSlot(S) == CHOOSE i \in S : \A j \in S : i <= j

\* the highest slot of a non-empty set of slots
LastSlot(S) == CHOOSE i \in S : \A j \in S : i >= j

\* findOrCreateNode allocating the highest free slot (loop run downwards)
findOrCreateNode_LastFree(nd, id) ==
    LET holding == { i \in Slots : nd[i].nodeId = id }
        free == { i \in Slots : nd[i].nodeId = 0 }
    IN  IF holding # {}
        THEN [slot |-> FirstSlot(holding), nodes |-> nd]
        ELSE IF free # {}
             THEN [slot |-> LastSlot(free),
                   nodes |-> [nd EXCEPT ![LastSlot(free)].nodeId = id]]
             ELSE [slot |-> -1, nodes |-> nd]

\* findOrCreateNode recycling slot 0 when no slot is free
findOrCreateNode_EvictsFirst(nd, id) ==
    LET holding == { i \in Slots : nd[i].nodeId = id }
        free == { i \in Slots : nd[i].nodeId = 0 }
    IN  IF holding # {}
        THEN [slot |-> FirstSlot(holding), nodes |-> nd]
        ELSE IF free # {}
             THEN [slot |-> FirstSlot(free),
                   nodes |-> [nd EXCEPT ![FirstSlot(free)].nodeId = id]]
             ELSE [slot |-> 0, nodes |-> [nd EXCEPT ![0].nodeId = id]]

\* findOrCreateNode refusing the sentinel id 0
findOrCreateNode_RejectsZero(nd, id) ==
    LET holding == { i \in Slots : nd[i].nodeId = id }
        free == { i \in Slots : nd[i].nodeId = 0 }
    IN  IF id = 0
        THEN [slot |-> -1, nodes |-> nd]
        ELSE IF holding # {}
             THEN [slot |-> FirstSlot(holding), nodes |-> nd]
             ELSE IF free # {}
                  THEN [slot |-> FirstSlot(free),
                        nodes |-> [nd EXCEPT ![FirstSlot(free)].nodeId = id]]
                  ELSE [slot |-> -1, nodes |-> nd]

\* findOrCreateNode without the search for an existing slot
findOrCreateNode_AlwaysAllocates(nd, id) ==
    LET free == { i \in Slots : nd[i].nodeId = 0 }
    IN  IF free # {}
        THEN [slot |-> FirstSlot(free),
              nodes |-> [nd EXCEPT ![FirstSlot(free)].nodeId = id]]
        ELSE [slot |-> -1, nodes |-> nd]

\* ReceiveData* findOrCreateNode(uint8_t id): the slot returned (-1 for
\* nullptr) and the registry after the call
findOrCreateNode(nd, id) ==
    LET holding == { i \in Slots : nd[i].nodeId = id }
        free == { i \in Slots : nd[i].nodeId = 0 }
    IN  IF holding # {}
        THEN [slot |-> FirstSlot(holding), nodes |-> nd]
        ELSE IF free # {}
             THEN [slot |-> FirstSlot(free),
                   nodes |-> [nd EXCEPT ![FirstSlot(free)].nodeId = id]]
             ELSE [slot |-> -1, nodes |-> nd]

\* value of a base-16 digit, -1 for any other character
HexVal(c) ==
    CASE c = "0" -> 0  [] c = "1" -> 1  [] c = "2" -> 2  [] c = "3" -> 3
      [] c = "4" -> 4  [] c = "5" -> 5  [] c = "6" -> 6  [] c = "7" -> 7
      [] c = "8" -> 8  [] c = "9" -> 9
      [] c \in { "A", "a" } -> 10  [] c \in { "B", "b" } -> 11
      [] c \in { "C", "c" } -> 12  [] c \in { "D", "d" } -> 13
      [] c \in { "E", "e" } -> 14  [] c \in { "F", "f" } -> 15
      [] OTHER -> -1

\* isspace() for the characters a line can hold
IsSpace(c) == c \in { " ", "\t", "\n", "\r" }

\* the digits strtol consumes from (1-based) position i on, accumulated
RECURSIVE HexRun(_, _, _)
HexRun(s, i, acc) ==
    IF i > Len(s) \/ HexVal(s[i]) < 0 THEN acc
    ELSE HexRun(s, i + 1, acc * 16 + HexVal(s[i]))

\* the decimal digits only: strtol called with base 10
RECURSIVE DecRun(_, _, _)
DecRun(s, i, acc) ==
    IF i > Len(s) \/ HexVal(s[i]) < 0 \/ HexVal(s[i]) > 9 THEN acc
    ELSE DecRun(s, i + 1, acc * 10 + HexVal(s[i]))

\* strtol(s, NULL, 10)
strtol16_Base10(s) ==
    LET ws == CHOOSE k \in 0..Len(s) :
                  /\ \A j \in 1..k : IsSpace(s[j])
                  /\ (k = Len(s) \/ ~IsSpace(s[k + 1]))
        signed == ws < Len(s) /\ s[ws + 1] \in { "+", "-" }
        neg == ws < Len(s) /\ s[ws + 1] = "-"
        p1 == IF signed THEN ws + 1 ELSE ws
        v == DecRun(s, p1 + 1, 0)
    IN  IF neg THEN 0 - v ELSE v

\* strtol(s, NULL, 16): leading white space, an optional sign, an optional
\* 0x/0X prefix, then hex digits up to the first other character; 0 when
\* there is no digit
strtol16(s) ==
    LET ws == CHOOSE k \in 0..Len(s) :
                  /\ \A j \in 1..k : IsSpace(s[j])
                  /\ (k = Len(s) \/ ~IsSpace(s[k + 1]))
        signed == ws < Len(s) /\ s[ws + 1] \in { "+", "-" }
        neg == ws < Len(s) /\ s[ws + 1] = "-"
        p1 == IF signed THEN ws + 1 ELSE ws
        prefixed == /\ p1 + 3 <= Len(s)
                    /\ s[p1 + 1] = "0"
                    /\ s[p1 + 2] \in { "x", "X" }
                    /\ HexVal(s[p1 + 3]) >= 0
        p2 == IF prefixed THEN p1 + 2 ELSE p1
        v == HexRun(s, p2 + 1, 0)
    IN  IF neg THEN 0 - v ELSE v

\* conversion of a long to uint8_t
ToUint8(v) == ((v % 256) + 256) % 256

\* conversion of an int argument to unsigned int (String::substring): a
\* negative int becomes a value above every String length (2^32 + x in the
\* build; the largest integer TLC handles stands for it, x being -1 at least)
ToUnsigned(x) == IF x < 0 THEN 2147483647 + (x + 1) ELSE x

\* lines 203-211: the eight fields decoded from the payload
ParseFields_SwappedIds(data) ==
    [ responseId |-> ToUint8(strtol16(Substring(data, 2, 4))),
      nodeId     |-> ToUint8(strtol16(Substring(data, 0, 2))),
      param_1    |-> ToUint8(strtol16(Substring(data, 4, 6))),
      param_2    |-> ToUint8(strtol16(Substring(data, 6, 8))),
      param_3    |-> ToUint8(strtol16(Substring(data, 8, 10))),
      param_4    |-> ToUint8(strtol16(Substring(data, 10, 12))),
      param_5    |-> ToUint8(strtol16(Substring(data, 12, 14))),
      param_6    |-> ToUint8(strtol16(Substring(data, 14, 16))) ]

\* ParseFields reading the last pair with substring(14), to the end of the
\* payload
ParseFields_LastToEnd(data) ==
    [ responseId |-> ToUint8(strtol16(Substring(data, 0, 2))),
      nodeId     |-> ToUint8(strtol16(Substring(data, 2, 4))),
      param_1    |-> ToUint8(strtol16(Substring(data, 4, 6))),
      param_2    |-> ToUint8(strtol16(Substring(data, 6, 8))),
      param_3    |-> ToUint8(strtol16(Substring(data, 8, 10))),
      param_4    |-> ToUint8(strtol16(Substring(data, 10, 12))),
      param_5    |-> ToUint8(strtol16(Substring(data, 12, 14))),
      param_6    |-> ToUint8(strtol16(Substring(data, 14, Len(data)))) ]

ParseFields(data) ==
    [ responseId |-> ToUint8(strtol16(Substring(data, 0, 2))),
      nodeId     |-> ToUint8(strtol16(Substring(data, 2, 4))),
      param_1    |-> ToUint8(strtol16(Substring(data, 4, 6))),
      param_2    |-> ToUint8(strtol16(Substring(data, 6, 8))),
      param_3    |-> ToUint8(strtol16(Substring(data, 8, 10))),
      param_4    |-> ToUint8(strtol16(Substring(data, 10, 12))),
      param_5    |-> ToUint8(strtol16(Substring(data, 12, 14))),
      param_6    |-> ToUint8(strtol16(Substring(data, 14, 16))) ]

\* StoreRecord copying the parameters only, not the whole struct
StoreRecord_ParamsOnly(nd, temp) ==
    LET f == findOrCreateNode(nd, temp.nodeId)
    IN  IF f.slot < 0
        THEN [ret |-> FALSE, nodes |-> f.nodes]
        ELSE [ret |-> TRUE,
              nodes |-> [f.nodes EXCEPT ![f.slot] =
                            [temp EXCEPT !.responseId = f.nodes[f.slot].responseId]]]

\* lines 213-218: find or create the slot and store the record
StoreRecord(nd, temp) ==
    LET f == findOrCreateNode(nd, temp.nodeId)
    IN  IF f.slot < 0
        THEN [ret |-> FALSE, nodes |-> f.nodes]
        ELSE [ret |-> TRUE, nodes |-> [f.nodes EXCEPT ![f.slot] = temp]]

\* parseAndStoreNodeResponse without the test of the delimiters
parseAndStoreNodeResponse_NoDelimiterCheck(nd, raw) ==
    LET start == IndexOf(raw, "\"") + 1
        end == LastIndexOf(raw, "\"")
        data == Substring(raw, ToUnsigned(start), ToUnsigned(end))
    IN  IF Len(data) < 16 THEN [ret |-> FALSE, nodes |-> nd]
        ELSE StoreRecord(nd, ParseFields(data))

\* parseAndStoreNodeResponse rejecting a payload of exactly 16 characters
parseAndStoreNodeResponse_OffByOne(nd, raw) ==
    LET start == IndexOf(raw, "\"") + 1
        end == LastIndexOf(raw, "\"")
        data == Substring(raw, ToUnsigned(start), ToUnsigned(end))
    IN  IF start <= 0 \/ end <= start THEN [ret |-> FALSE, nodes |-> nd]
        ELSE IF Len(data) <= 16 THEN [ret |-> FALSE, nodes |-> nd]
        ELSE StoreRecord(nd, ParseFields(data))

\* parseAndStoreNodeResponse looking up the slot before the length test
parseAndStoreNodeResponse_AllocatesFirst(nd, raw) ==
    LET start == IndexOf(raw, "\"") + 1
        end == LastIndexOf(raw, "\"")
        data == Substring(raw, ToUnsigned(start), ToUnsigned(end))
        f == findOrCreateNode(nd, ParseFields(data).nodeId)
    IN  IF start <= 0 \/ end <= start THEN [ret |-> FALSE, nodes |-> nd]
        ELSE IF Len(data) < 16 \/ f.slot < 0 THEN [ret |-> FALSE, nodes |-> f.nodes]
        ELSE [ret |-> TRUE, nodes |-> [f.nodes EXCEPT ![f.slot] = ParseFields(data)]]

\* bool parseAndStoreNodeResponse(String rawData): the value returned and
\* the registry after the call
parseAndStoreNodeResponse(nd, raw) ==
    LET start == IndexOf(raw, "\"") + 1
        end == LastIndexOf(raw, "\"")
        data == Substring(raw, ToUnsigned(start), ToUnsigned(end))
    IN  IF start <= 0 \/ end <= start THEN [ret |-> FALSE, nodes |-> nd]
        ELSE IF Len(data) < 16 THEN [ret |-> FALSE, nodes |-> nd]
        ELSE StoreRecord(nd, ParseFields(data))

\* the sample responses of TestParse
rx1 == << "+", "T", "E", "S", "T", ":", " ", "R", "X", " ", "\"", "5", "9", "1", "0", "1", "1", "B", "A", "1", "4", "1", "F", "1", "7", "2", "F", "\"" >>
rx2 == << "+", "T", "E", "S", "T", ":", " ", "R", "X", " ", "\"", "5", "9", "2", "0", "2", "2", "B", "B", "1", "5", "2", "F", "1", "8", "3", "0", "\"" >>
rx3 == << "+", "T", "E", "S", "T", ":", " ", "R", "X", " ", "\"", "5", "9", "3", "0", "2", "2", "B", "B", "1", "5", "2", "F", "1", "8", "3", "0", "\"" >>

\* "+TEST: RX ", what the Wio-E5 puts before the quoted payload
RxPrefix == << "+", "T", "E", "S", "T", ":", " ", "R", "X", " " >>

Quoted(payload) == RxPrefix \o << "\"" >> \o payload \o << "\"" >>

\* payloads of 16 hex digits
HexPayloads ==
    { << "5", "9", "1", "0", "1", "1", "B", "A", "1", "4", "1", "F", "1", "7", "2", "F" >>,
      << "5", "9", "1", "1", "F", "F", "0", "0", "0", "A", "A", "0", "7", "F", "8", "0" >>,
      << "5", "9", "1", "2", "F", "F", "0", "0", "0", "A", "A", "0", "7", "F", "8", "0" >>,
      << "5", "9", "1", "3", "1", "1", "B", "A", "1", "4", "1", "F", "1", "7", "2", "F" >>,
      << "5", "9", "0", "0", "1", "1", "B", "A", "1", "4", "1", "F", "1", "7", "2", "F" >>,
      << "5", "A", "1", "0", "F", "F", "0", "0", "0", "A", "A", "0", "7", "F", "8", "0" >>,
      << "5", "9", "1", "0", "1", "1", "b", "a", "1", "4", "1", "f", "1", "7", "2", "f" >> }

\* payloads of at least 16 characters with a pair that is not base 16
BadHexPayloads ==
    { << "5", "9", "Z", "Z", "1", "1", "B", "A", "1", "4", "1", "F", "1", "7", "2", "F" >>,
      << "5", "G", "1", "0", "1", "1", "B", "A", "1", "4", "1", "F", "1", "7", "2", "F" >>,
      << "5", "9", "-", "F", "1", "1", "B", "A", "1", "4", "1", "F", "1", "7", "2", "F" >>,
      << "5", "9", " ", "0", "1", "1", "B", "A", "1", "4", "1", "F", "1", "7", "2", "F" >>,
      << "5", "9", "1", "0", "1", "1", "B", "A", "\"", "1", "4", "1", "F", "1", "7", "2", "F" >> }

\* payloads shorter than 16 characters
ShortPayloads ==
    { << "5", "9", "1", "0", "1", "1", "B", "A", "1", "4", "1", "F", "1", "7", "2" >>,
      << "5", "9", "1", "3" >> }

\* payloads longer than 16 characters
LongPayloads ==
    { << "5", "9", "1", "2", "1", "1", "B", "A", "1", "4", "1", "F", "1", "7", "2", "F", "Z" >> }

\* lines without two delimiters enclosing something
UndelimitedLines ==
    { <<  >>,
      << "5", "9", "1", "0", "1", "1", "B", "A", "1", "4", "1", "F", "1", "7", "2", "F" >>,
      << "+", "T", "E", "S", "T", ":", " ", "R", "X", " ", "\"", "5", "9", "1", "0", "1", "1", "B", "A", "1", "4", "1", "F", "1", "7", "2", "F" >>,
      << "5", "9", "1", "0", "1", "1", "B", "A", "1", "4", "1", "F", "1", "7", "2", "F", "\"" >>,
      << "+", "T", "E", "S", "T", ":", " ", "R", "X", " ", "\"", "\"" >> }

\* the lines parseAndStoreNodeResponse is called with
ParseLines ==
    { Quoted(p) : p \in HexPayloads \cup BadHexPayloads \cup ShortPayloads \cup LongPayloads }
    \cup UndelimitedLines
    \cup { rx1, rx2, rx3 }

\* a call of parseAndStoreNodeResponse with any of the lines
ParseCall ==
    /\ \E line \in ParseLines :
         LET r == parseAndStoreNodeResponse(NodeData, line)
         IN  /\ NodeData' = r.nodes
             /\ rawData' = line
             /\ result' = r.ret
    /\ op' = "parseAndStoreNodeResponse"
    /\ UNCHANGED << framerVars, mainVars, SerialOut >>

\* void TestParse(): the three sample responses parsed in order (the
\* printing of the registry changes nothing)
TestParse ==
    /\ LET r1 == parseAndStoreNodeResponse(NodeData, rx1)
           r2 == parseAndStoreNodeResponse(r1.nodes, rx2)
           r3 == parseAndStoreNodeResponse(r2.nodes, rx3)
       IN  /\ NodeData' = r3.nodes
           /\ rawData' = rx3
           /\ result' = r3.ret
    /\ op' = "TestParse"
    /\ UNCHANGED << framerVars, mainVars, SerialOut >>

\* payloads of 16 hex digits followed by more characters, hex digits or not
PayloadSuffixes == { << "0" >>, << "F", "F", "Z" >> }
SuffixedPayloads ==
    { p \o x : p \in { SubSeq(rx1, 12, 27),
                       << "5", "9", "1", "1", "F", "F", "0", "0", "0", "A", "A", "0", "7", "F", "8", "0" >> },
               x \in PayloadSuffixes }

\* the lines that pass the delimiter and length tests and so reach
\* findOrCreateNode (the others return before it and are left to ParseCall)
RegistryLines ==
    { Quoted(p) : p \in HexPayloads \cup LongPayloads \cup SuffixedPayloads }
    \cup { rx2, rx3 }

\* a call of parseAndStoreNodeResponse with a line that reaches the registry
UpsertCall ==
    /\ \E line \in RegistryLines :
         LET r == parseAndStoreNodeResponse(NodeData, line)
         IN  /\ NodeData' = r.nodes
             /\ rawData' = line
             /\ result' = r.ret
    /\ op' = "parseAndStoreNodeResponse"
    /\ UNCHANGED << framerVars, mainVars, SerialOut >>

\* the call just made, made once more with the same line
RepeatCall ==
    /\ op \in { "parseAndStoreNodeResponse", "parseAndStoreNodeResponse again" }
    /\ LET r == parseAndStoreNodeResponse(NodeData, rawData)
       IN  /\ NodeData' = r.nodes
           /\ result' = r.ret
    /\ op' = "parseAndStoreNodeResponse again"
    /\ UNCHANGED << framerVars, mainVars, SerialOut, rawData >>

\* the node ids findOrCreateNode is called with on its own
FindIds == { 0, 16, 19 }

\* a call of findOrCreateNode alone: the slot is claimed for the id, its
\* other fields are left as they are
FindOrCreateCall ==
    /\ \E id \in FindIds :
         LET f == findOrCreateNode(NodeData, id)
         IN  /\ NodeData' = f.nodes
             /\ result' = (f.slot >= 0)
    /\ rawData' = << >>
    /\ op' = "findOrCreateNode"
    /\ UNCHANGED << framerVars, mainVars, SerialOut >>

----------------------------------------------------------------------------
(* Specifications *)

\* a data line as the Wio-E5 delivers it: the first sample response of
\* TestParse and the end marker
DataLine == Append(rx1, "\n")

\* the byte streams of a behaviour: every short stream over Bytes, and the
\* data line followed by at most one more byte
Streams ==
    SeqsUpTo(Bytes, MaxRx) \cup { DataLine \o t : t \in SeqsUpTo(Bytes, 1) }

Init ==
    /\ uart_rx \in Streams
    /\ rx = << >>
    /\ command_data = << >>
    /\ command_receiving = 0
    /\ command_ready = 0
    /\ waitingForResponse = FALSE
    /\ hpc = "idle"
    /\ SerialOut = << >>
    /\ tx = << >>
    /\ pc = "InitLora_1"
    /\ now = 1000
    /\ commandSentTime = 0
    /\ issueTime = -1
    /\ NodeData = [i \in Slots |-> EmptyRecord]
    /\ rawData = << >>
    /\ result = FALSE
    /\ op = "init"

\* the callback interrupts the main context anywhere; setup()'s delay(1000)
\* has passed when InitLora starts
Next ==
    \/ onUartReceive
    \/ InitLora
    \/ Loop

Spec == Init /\ [][Next]_vars

\* the same with the callback running as a task of its own, the main context
\* free to run between its two parts
NextInterleaved ==
    \/ onUartReceive_Frame
    \/ onUartReceive_Validate
    \/ InitLora
    \/ Loop

SpecInterleaved == Init /\ [][NextInterleaved]_vars

\* the parser and the registry on their own: no UART traffic
InitParse ==
    /\ Init
    /\ uart_rx = << >>

NextParse ==
    \/ ParseCall
    \/ TestParse

SpecParse == InitParse /\ [][NextParse]_vars

\* the registry under every call that reaches it
NextRegistry ==
    \/ UpsertCall
    \/ RepeatCall
    \/ TestParse
    \/ FindOrCreateCall

SpecRegistry == InitParse /\ [][NextRegistry]_vars

\* the main context alone, sending status commands after setup()
NextStatus ==
    \/ InitLora
    \/ SendNodeStatusCall

SpecStatus == InitParse /\ [][NextStatus]_vars


----------------------------------------------------------------------------
(* Line framer: properties *)

IsFramerLine(e) == e.prefix = "Wio-E5: "

\* the lines the framer has emitted (Serial.println("Wio-E5: " + command_data))
EmittedLines == SelectSeq(SerialOut, IsFramerLine)

\* the byte the last onUartReceive invocation read
LastRead == rx[Len(rx)]

\* s from its last start marker (included) to its end; empty without one
SinceLastStart(s) ==
    IF LastIndexOf(s, "+") < 0 THEN << >> ELSE SubSeq(s, LastIndexOf(s, "+") + 1, Len(s))

\* s holds a start marker followed by an end marker, nothing but payload
\* between them, and no more than MaxLineLen bytes of it (the marker itself
\* not counted, the reading most favourable to the sketch)
FramedWithinMax(s) ==
    \E i, j \in 1..Len(s) :
        /\ i < j
        /\ s[i] = "+"
        /\ s[j] = "\n"
        /\ \A k \in (i + 1)..(j - 1) : s[k] \notin { "+", "\n" }
        /\ j - i - 1 <= MaxLineLen

\* the same without the length condition
Framed(s) ==
    \E i, j \in 1..Len(s) : i < j /\ s[i] = "+" /\ s[j] = "\n"

\* what the sketch does: a line has been emitted if and only if a start marker
\* was later followed by an end marker, whatever the length in between
FramerEmitsIffFramed ==
    (Len(EmittedLines) > 0) <=> Framed(rx)

\* C1: a line has been emitted if and only if the bytes delivered so far hold
\* a start marker '+' later followed by an end marker '\n' with the
\* accumulated length within the configured maximum line length.
C1_EmittedIffFramedWithinMax ==
    (Len(EmittedLines) > 0) <=> FramedWithinMax(rx)

\* C2: in every reachable state the accumulation buffer command_data is no
\* longer than the configured maximum line length.
C2_BufferWithinMax ==
    Len(command_data) <= MaxLineLen

\* C3: while the framer is idle (command_receiving = 0) every byte other than
\* '+' leaves command_data and command_receiving unchanged and emits no line;
\* a byte sequence without '+' never emits a line.
C3_IdleDiscards ==
    /\ [][ ( /\ op' = "onUartReceive"
             /\ command_receiving = 0
             /\ LastRead' # "+" )
           => ( /\ command_data' = command_data
                /\ command_receiving' = 0
                /\ EmittedLines' = EmittedLines ) ]_vars
    /\ []( (\A i \in 1..Len(rx) : rx[i] # "+") => EmittedLines = << >> )

\* C3 witness: a line was completed, then a byte other than '+' was read and
\* discarded
C3_Witness ==
    /\ op = "onUartReceive"
    /\ rx = << "+", "a", "\n", "a", "\r" >>
    /\ command_receiving = 0
    /\ command_data = << "+", "a" >>
    /\ Len(EmittedLines) = 1

\* C4: when the end marker '\n' is read while framing is active, one line is
\* emitted, it is exactly the bytes read since the most recent start marker
\* (the marker first, the end marker excluded), and command_receiving is 0
\* afterwards.
C4_EmitsAccumulatedLine ==
    [][ ( /\ op' = "onUartReceive"
          /\ command_receiving # 0
          /\ LastRead' = "\n" )
        => ( /\ Len(EmittedLines') = Len(EmittedLines) + 1
             /\ EmittedLines'[Len(EmittedLines')].text = SinceLastStart(rx)
             /\ command_data' = SinceLastStart(rx)
             /\ command_receiving' = 0 ) ]_vars

\* C4 witness: a line emitted after a restarted frame
C4_Witness ==
    /\ op = "onUartReceive"
    /\ rx = << "+", "a", "+", "\r", "\n" >>
    /\ command_receiving = 0
    /\ Len(EmittedLines) = 1
    /\ EmittedLines[1].text = << "+", "\r" >>

----------------------------------------------------------------------------
(* Hex packet parser: properties *)

\* the positions (1-based) of the double quotes of a line
QuoteAt(l) == { i \in 1..Len(l) : l[i] = "\"" }

\* the text between the first and the last double quote of a line with two
PayloadOf(l) ==
    LET first == CHOOSE i \in QuoteAt(l) : \A j \in QuoteAt(l) : i <= j
        last == CHOOSE i \in QuoteAt(l) : \A j \in QuoteAt(l) : i >= j
    IN  SubSeq(l, first + 1, last - 1)

\* a line whose first and last double quote enclose at least one character
Delimited(l) == Cardinality(QuoteAt(l)) >= 2 /\ Len(PayloadOf(l)) >= 1

\* the first 16 characters of the payload are hex digits
Hex16(l) ==
    /\ Cardinality(QuoteAt(l)) >= 2
    /\ LET p == PayloadOf(l)
       IN  Len(p) >= 16 /\ \A k \in 1..16 : HexVal(p[k]) >= 0

\* the byte the k-th hex pair (k = 0..7) of payload p encodes
PairByte(p, k) == 16 * HexVal(p[2 * k + 1]) + HexVal(p[2 * k + 2])

\* the record a line with 16 hex digits encodes, pair by pair
DecodedRecord(l) ==
    LET p == PayloadOf(l)
    IN  [ responseId |-> PairByte(p, 0), nodeId |-> PairByte(p, 1),
          param_1 |-> PairByte(p, 2), param_2 |-> PairByte(p, 3),
          param_3 |-> PairByte(p, 4), param_4 |-> PairByte(p, 5),
          param_5 |-> PairByte(p, 6), param_6 |-> PairByte(p, 7) ]

\* the registry has a slot for id: one holding it, or a free one
HasSlot(nd, id) == \E i \in Slots : nd[i].nodeId = id \/ nd[i].nodeId = 0

\* Scenario A: what rx1 decodes to
ScenarioARecord ==
    [ responseId |-> 89, nodeId |-> 16, param_1 |-> 17, param_2 |-> 186,
      param_3 |-> 20, param_4 |-> 31, param_5 |-> 23, param_6 |-> 47 ]

ParseStep == op' = "parseAndStoreNodeResponse"

\* C5: a line whose quoted payload starts with 16 hex digits, parsed on a
\* registry with a free or matching slot, returns true and stores the record
\* made of the first eight hex pairs in the order responseId, nodeId,
\* param_1..param_6; rx1 stores 0x59, 0x10, 0x11, 0xBA, 0x14, 0x1F, 0x17, 0x2F.
C5_DecodesFixedOrder ==
    [][ ( /\ ParseStep
          /\ Hex16(rawData')
          /\ HasSlot(NodeData, DecodedRecord(rawData').nodeId) )
        => ( /\ result' = TRUE
             /\ \E i \in Slots : NodeData'[i] = DecodedRecord(rawData')
             /\ rawData' = rx1 => \E i \in Slots : NodeData'[i] = ScenarioARecord ) ]_vars

\* C5 witness: rx1 parsed and stored in the first slot
C5_Witness ==
    /\ op = "parseAndStoreNodeResponse"
    /\ rawData = rx1
    /\ result = TRUE
    /\ NodeData[0] = ScenarioARecord

\* C6: the call returns false for every line with no double quote, with
\* exactly one, or whose first and last double quote enclose nothing.
C6_MissingDelimitersFail ==
    (op = "parseAndStoreNodeResponse" /\ ~Delimited(rawData)) => result = FALSE

\* C6 witness: a line of 16 hex digits and no double quote was rejected
C6_Witness ==
    /\ op = "parseAndStoreNodeResponse"
    /\ QuoteAt(rawData) = {}
    /\ Len(rawData) >= 16
    /\ result = FALSE

\* C7: the call returns false for every delimited line whose payload has
\* fewer than 16 characters; a payload of exactly 16 characters passes the
\* length test, the call returning true whenever the registry has a free slot.
C7_PayloadLength ==
    [][ ParseStep =>
          ( /\ (Delimited(rawData') /\ Len(PayloadOf(rawData')) < 16) => result' = FALSE
            /\ ( /\ Delimited(rawData')
                 /\ Len(PayloadOf(rawData')) = 16
                 /\ \E i \in Slots : NodeData[i].nodeId = 0 ) => result' = TRUE ) ]_vars

\* C7 witness: a payload of exactly 16 characters was accepted
C7_Witness ==
    /\ op = "parseAndStoreNodeResponse"
    /\ Delimited(rawData)
    /\ Len(PayloadOf(rawData)) = 16
    /\ result = TRUE

\* a payload of at least 16 characters one of whose first eight pairs is not
\* two base-16 digits
BadPair(l) ==
    /\ Cardinality(QuoteAt(l)) >= 2
    /\ LET p == PayloadOf(l)
       IN  Len(p) >= 16 /\ \E k \in 1..16 : HexVal(p[k]) < 0

\* C8: the call fails for every line in which one of the first eight pairs
\* of the quoted payload is not two valid base-16 digits, and stores nothing.
C8_InvalidHexFails ==
    [][ (ParseStep /\ BadPair(rawData')) => (result' = FALSE /\ NodeData' = NodeData) ]_vars

\* C9: whenever the call returns false, every slot of NodeData is what it was
\* before the call.
C9_FailureLeavesRegistry ==
    [][ (ParseStep /\ result' = FALSE) => NodeData' = NodeData ]_vars

\* C9 witness: a well-formed line for a new node was rejected by a registry
\* whose slots are all taken
C9_Witness ==
    /\ op = "parseAndStoreNodeResponse"
    /\ result = FALSE
    /\ Hex16(rawData)
    /\ \A i \in Slots : NodeData[i].nodeId \notin { 0, DecodedRecord(rawData).nodeId }

\* the two upper-case hex digits of a byte
HexDigit(n) ==
    << "0", "1", "2", "3", "4", "5", "6", "7", "8", "9", "A", "B", "C", "D", "E", "F" >>[n + 1]
HexPair(b) == << HexDigit(b \div 16), HexDigit(b % 16) >>

\* the wire form of a record: its eight bytes as 16 hex digits in quotes
WireLine(r) ==
    Quoted(HexPair(r.responseId) \o HexPair(r.nodeId) \o HexPair(r.param_1)
           \o HexPair(r.param_2) \o HexPair(r.param_3) \o HexPair(r.param_4)
           \o HexPair(r.param_5) \o HexPair(r.param_6))

\* records whose wire form is among the lines parsed
WireRecord(rid, nid, p) ==
    [ responseId |-> rid, nodeId |-> nid, param_1 |-> p[1], param_2 |-> p[2],
      param_3 |-> p[3], param_4 |-> p[4], param_5 |-> p[5], param_6 |-> p[6] ]
WireRecords ==
    { WireRecord(89, 16, << 17, 186, 20, 31, 23, 47 >>),
      WireRecord(89, 17, << 255, 0, 10, 160, 127, 128 >>),
      WireRecord(89, 18, << 255, 0, 10, 160, 127, 128 >>),
      WireRecord(89, 19, << 17, 186, 20, 31, 23, 47 >>),
      WireRecord(89, 0, << 17, 186, 20, 31, 23, 47 >>),
      WireRecord(90, 16, << 255, 0, 10, 160, 127, 128 >>) }

\* C10: round trip. A record encoded as 16 hex digits inside double quotes
\* and parsed on a registry with a free or matching slot is stored field by
\* field; every byte 0..255 written as a hex pair is read back by the
\* parser's conversion (a fact about the conversion alone, evaluated once, in
\* the initial state).
C10_RoundTrip ==
    /\ [][ \A r \in WireRecords :
             ( /\ ParseStep
               /\ rawData' = WireLine(r)
               /\ HasSlot(NodeData, r.nodeId) )
             => ( /\ result' = TRUE
                  /\ \E i \in Slots : NodeData'[i] = r ) ]_vars
    /\ \A r \in WireRecords : WireLine(r) \in ParseLines
    /\ \A b \in 0..255 : /\ ParseFields(HexPair(b) \o HexPair(255 - b)).responseId = b
                         /\ ParseFields(HexPair(255 - b) \o HexPair(b)).nodeId = b

\* C10 witness: the wire form of a record with bytes 0x00, 0xFF, 0x80 came
\* back unchanged in the second slot
C10_Witness ==
    /\ op = "parseAndStoreNodeResponse"
    /\ result = TRUE
    /\ \E r \in WireRecords :
         /\ r.param_1 = 255 /\ r.param_2 = 0 /\ r.param_6 = 128
         /\ rawData = WireLine(r)
         /\ NodeData[1] = r

----------------------------------------------------------------------------
(* Node registry: properties *)

\* the node ids the registry holds (0 for a free slot)
IdsOf(nd) == { nd[i].nodeId : i \in Slots }

\* the slots holding id, the free slots
SlotsHolding(nd, id) == { i \in Slots : nd[i].nodeId = id }
FreeSlots(nd) == { i \in Slots : nd[i].nodeId = 0 }

\* the wire lines of four records for the nodes 0x10, 0x11, 0x12, 0x13
ScenarioCLines ==
    << rx1,
       Quoted(<< "5", "9", "1", "1", "F", "F", "0", "0", "0", "A", "A", "0", "7", "F", "8", "0" >>),
       Quoted(<< "5", "9", "1", "2", "F", "F", "0", "0", "0", "A", "A", "0", "7", "F", "8", "0" >>),
       Quoted(<< "5", "9", "1", "3", "1", "1", "B", "A", "1", "4", "1", "F", "1", "7", "2", "F" >>) >>

\* C11: a record whose nodeId already occupies a slot overwrites that same
\* slot entirely (all eight fields) and leaves every other slot unchanged.
C11_UpsertOverwritesInPlace ==
    [][ ( /\ ParseStep
          /\ Hex16(rawData')
          /\ SlotsHolding(NodeData, DecodedRecord(rawData').nodeId) # {} )
        => LET i == FirstSlot(SlotsHolding(NodeData, DecodedRecord(rawData').nodeId))
           IN  /\ result' = TRUE
               /\ NodeData'[i] = DecodedRecord(rawData')
               /\ \A j \in Slots \ { i } : NodeData'[j] = NodeData[j] ]_vars

\* C11 witness: node 0x10, stored first by rx1 (responseId 0x59), was
\* overwritten in slot 0 by a record with responseId 0x5A while slot 1 holds
\* another node
C11_Witness ==
    /\ op = "parseAndStoreNodeResponse"
    /\ result = TRUE
    /\ NodeData[0] = WireRecord(90, 16, << 255, 0, 10, 160, 127, 128 >>)
    /\ rawData = WireLine(NodeData[0])
    /\ NodeData[1].nodeId = 17

\* C12: a record whose nonzero nodeId is in no slot is written into the
\* lowest slot whose nodeId is 0, every other slot unchanged.
C12_UpsertAllocatesLowestFree ==
    [][ ( /\ ParseStep
          /\ Hex16(rawData')
          /\ DecodedRecord(rawData').nodeId # 0
          /\ SlotsHolding(NodeData, DecodedRecord(rawData').nodeId) = {}
          /\ FreeSlots(NodeData) # {} )
        => LET i == FirstSlot(FreeSlots(NodeData))
           IN  /\ result' = TRUE
               /\ NodeData'[i] = DecodedRecord(rawData')
               /\ \A j \in Slots \ { i } : NodeData'[j] = NodeData[j] ]_vars

\* C12 witness: node 0x12 was allocated slot 1, after node 0x10 in slot 0
C12_Witness ==
    /\ op = "parseAndStoreNodeResponse"
    /\ result = TRUE
    /\ NodeData[0].nodeId = 16
    /\ NodeData[1] = WireRecord(89, 18, << 255, 0, 10, 160, 127, 128 >>)
    /\ rawData = WireLine(NodeData[1])
    /\ NodeData[2] = EmptyRecord

\* C13: on a registry holding MAX_NODE distinct nonzero node ids a record
\* with an unseen nodeId fails and leaves every slot unchanged; from the empty
\* registry the records for 0x10, 0x11, 0x12 succeed and one for 0x13 fails.
C13_RegistryFull ==
    /\ [][ ( /\ ParseStep
             /\ Hex16(rawData')
             /\ FreeSlots(NodeData) = {}
             /\ SlotsHolding(NodeData, DecodedRecord(rawData').nodeId) = {} )
           => ( result' = FALSE /\ NodeData' = NodeData ) ]_vars
    /\ LET r1 == parseAndStoreNodeResponse([i \in Slots |-> EmptyRecord], ScenarioCLines[1])
           r2 == parseAndStoreNodeResponse(r1.nodes, ScenarioCLines[2])
           r3 == parseAndStoreNodeResponse(r2.nodes, ScenarioCLines[3])
           r4 == parseAndStoreNodeResponse(r3.nodes, ScenarioCLines[4])
       IN  /\ r1.ret /\ r2.ret /\ r3.ret
           /\ ~r4.ret
           /\ r4.nodes = r3.nodes
           /\ IdsOf(r3.nodes) = { 16, 17, 18 }

\* C13 witness: Scenario C, the record for 0x13 rejected by the registry
\* holding 0x10, 0x11, 0x12
C13_Witness ==
    /\ op = "parseAndStoreNodeResponse"
    /\ result = FALSE
    /\ rawData = ScenarioCLines[4]
    /\ NodeData[0].nodeId = 16 /\ NodeData[1].nodeId = 17 /\ NodeData[2].nodeId = 18

\* the occupied slots
Occupied(nd) == { i \in Slots : nd[i].nodeId # 0 }

\* C14: after any sequence of parseAndStoreNodeResponse and findOrCreateNode
\* calls no two slots hold the same nonzero nodeId.
C14_NodeIdsUnique ==
    \A i, j \in Slots :
        (i # j /\ NodeData[i].nodeId # 0) => NodeData[i].nodeId # NodeData[j].nodeId

\* C14 witness: node 0x10 reported a second time (responseId 0x5A) while
\* node 0x11 holds another slot, and 0x10 is still in one slot only
C14_Witness ==
    /\ op = "parseAndStoreNodeResponse"
    /\ result = TRUE
    /\ NodeData[0] = WireRecord(90, 16, << 255, 0, 10, 160, 127, 128 >>)
    /\ rawData = WireLine(NodeData[0])
    /\ NodeData[1].nodeId = 17
    /\ Cardinality(SlotsHolding(NodeData, 16)) = 1

\* C15: the occupied slots form a prefix of the array; an occupied slot never
\* changes its nodeId nor becomes empty; a record with an unseen nonzero
\* nodeId goes to the slot whose index is the number of nodes seen so far, so
\* slot i holds the i-th distinct nonzero nodeId in order of first appearance.
C15_SlotOrderIsInsertionOrder ==
    /\ [](\A i, j \in Slots : (i < j /\ NodeData[j].nodeId # 0) => NodeData[i].nodeId # 0)
    /\ [][ \A i \in Occupied(NodeData) : NodeData'[i].nodeId = NodeData[i].nodeId ]_vars
    /\ [][ ( /\ ParseStep
             /\ Hex16(rawData')
             /\ DecodedRecord(rawData').nodeId # 0
             /\ SlotsHolding(NodeData, DecodedRecord(rawData').nodeId) = {}
             /\ FreeSlots(NodeData) # {} )
           => /\ Occupied(NodeData') = 0..Cardinality(Occupied(NodeData))
              /\ NodeData'[Cardinality(Occupied(NodeData))].nodeId
                     = DecodedRecord(rawData').nodeId ]_vars
    /\ LET r1 == parseAndStoreNodeResponse([i \in Slots |-> EmptyRecord], ScenarioCLines[2])
           r2 == parseAndStoreNodeResponse(r1.nodes, ScenarioCLines[1])
           r3 == parseAndStoreNodeResponse(r2.nodes, ScenarioCLines[2])
           r4 == parseAndStoreNodeResponse(r3.nodes, ScenarioCLines[3])
       IN  [i \in Slots |-> r4.nodes[i].nodeId] = [i \in Slots |-> << 17, 16, 18 >>[i + 1]]

\* C15 witness: 0x11 was seen first, 0x10 second and 0x12 third, and the
\* slots hold them in that order and not in the order of their values
C15_Witness ==
    /\ op = "parseAndStoreNodeResponse"
    /\ result = TRUE
    /\ rawData = ScenarioCLines[3]
    /\ NodeData[0].nodeId = 17
    /\ NodeData[1].nodeId = 16
    /\ NodeData[2].nodeId = 18

\* C16: the same line parsed twice in a row leaves the registry as one
\* parse of it does: the second call returns what the first returned and
\* changes no slot, and at most MAX_NODE slots are occupied.
C16_UpsertIdempotent ==
    /\ [][ op' = "parseAndStoreNodeResponse again"
           => ( NodeData' = NodeData /\ result' = result ) ]_vars
    /\ [](Cardinality(Occupied(NodeData)) <= MAX_NODE)

\* C16 witness: the record of node 0x11 was parsed a second time straight
\* after it was stored in slot 1, behind node 0x10
C16_Witness ==
    /\ op = "parseAndStoreNodeResponse again"
    /\ result = TRUE
    /\ rawData = ScenarioCLines[2]
    /\ NodeData[0].nodeId = 16
    /\ NodeData[1] = DecodedRecord(rawData)
    /\ NodeData[2] = EmptyRecord

----------------------------------------------------------------------------
(* Command sequencer: properties *)

\* the position in out of the last "Sending: " line, 0 without one
LastSending(out) ==
    LET S == { k \in 1..Len(out) : out[k].prefix = "Sending: " }
    IN  IF S = {} THEN 0 ELSE CHOOSE k \in S : \A m \in S : m <= k

\* a line that the validation of onUartReceive accepts was emitted after the
\* last command was sent
Answered(out) ==
    \E k \in 1..Len(out) :
        /\ k > LastSending(out)
        /\ IsFramerLine(out[k])
        /\ IndexOfStr(out[k].text, ValidMarker) = 10

\* something other than a received line was reported after the last command
TimeoutReported(out) ==
    \E k \in 1..Len(out) : k > LastSending(out) /\ ~IsFramerLine(out[k])

\* a command is pending: sent, not answered, not timed out
Pending == issueTime >= 0 /\ ~Answered(SerialOut) /\ ~TimeoutReported(SerialOut)

\* C17: a command sent and not answered within RESPONSE_TIMEOUT is reported
\* as timed out and cleared: once loop() has run an iteration that started
\* after the deadline, the timeout has been reported and nothing is pending.
C17_TimeoutReported ==
    [][ ( /\ op' = "loop"
          /\ issueTime >= 0
          /\ now - issueTime > RESPONSE_TIMEOUT
          /\ ~Answered(SerialOut') )
        => ( TimeoutReported(SerialOut') /\ waitingForResponse' = FALSE ) ]_vars

\* C18: when sendCommand has returned a command is outstanding:
\* waitingForResponse is true and commandSentTime holds the issue time.
C18_SendCreatesPending ==
    op = "sendCommand" => ( waitingForResponse = TRUE /\ commandSentTime = issueTime )

\* C19: at most one command is in flight: a send issued while the previous
\* command is pending emits nothing to the transport.
C19_OneInFlight ==
    [][ ( op' = "sendCommand" /\ Pending /\ now - issueTime <= RESPONSE_TIMEOUT )
        => tx' = tx ]_vars

\* C20: each sendCommand(cmd) appends to the transport cmd followed by
\* "\r\n" and nothing else, no other step writes to the transport, and
\* InitLora has emitted AT, AT+MODE=TEST, AT+TEST=RFCFG,... once each in
\* that order when it returns.
C20_EmitsCommandOnce ==
    /\ [][ op' = "sendCommand"
           => ( pc \in DOMAIN InitLoraCmd /\ tx' = tx \o << InitLoraCmd[pc], "\r\n" >> ) ]_vars
    /\ [][ op' # "sendCommand" => tx' = tx ]_vars
    /\ [](pc = "loop"
          => tx = << "AT", "\r\n", "AT+MODE=TEST", "\r\n",
                     "AT+TEST=RFCFG,866,SF12,125,10,10,22,ON,OFF,OFF", "\r\n" >>)

\* C20 witness: InitLora has just sent its third command
C20_Witness ==
    /\ op = "sendCommand"
    /\ pc = "loop"
    /\ Len(tx) = 6
    /\ tx[5] = InitLoraCmd["InitLora_3"]

\* C21: every completed line that the validation rejects, or that arrives
\* while no command is pending, is handed on unconsumed: after the invocation
\* that completed it, command_data holds the line and command_ready is set.
C21_CompletedLinePassedOn ==
    [][ ( /\ op' = "onUartReceive"
          /\ Len(EmittedLines') = Len(EmittedLines) + 1
          /\ ( IndexOfStr(command_data', ValidMarker) # 10 \/ ~waitingForResponse ) )
        => ( /\ command_ready' = 1
             /\ command_data' = EmittedLines'[Len(EmittedLines')].text ) ]_vars

\* the data lines among the lines received so far: 16 hex digits between the
\* quotes and a nonzero nodeId
DataLinesReceived ==
    { l \in { EmittedLines[k].text : k \in 1..Len(EmittedLines) } :
          Hex16(l) /\ DecodedRecord(l).nodeId # 0 }

\* C22: a complete data line received over the UART while the registry has a
\* free or matching slot ends up decoded in NodeData: once loop() has run an
\* iteration that started after the line was received, a slot holds its record.
C22_DataLineReachesRegistry ==
    [][ op' = "loop"
        => \A l \in DataLinesReceived :
              ( FreeSlots(NodeData) # {} \/ HasSlot(NodeData, DecodedRecord(l).nodeId) )
              => \E i \in Slots : NodeData'[i] = DecodedRecord(l) ]_vars

\* a step of the main context (setup/InitLora/loop)
MainStep == op' \in { "sendCommand", "loop" }

\* C23: the main context never touches the framer buffer, its flags or the
\* registry while an onUartReceive invocation is part-way through: a step of
\* the main context taken between the two parts of an invocation changes none
\* of them, so the invocation ends as if it had run alone.
C23_ContextsExclusive ==
    [][ ( MainStep /\ hpc # "idle" )
        => UNCHANGED << command_data, command_receiving, command_ready,
                        waitingForResponse, NodeData >> ]_vars

\* C23 witness: loop() ran while an invocation had completed a line (ready
\* flag set) and not yet validated it
C23_Witness ==
    /\ op = "loop"
    /\ hpc = "validate"
    /\ command_ready = 1
    /\ command_data = << "+", "a" >>
    /\ LastRead = "\n"

\* a byte as two hex digits
TwoHex(n, digits) == digits[(n \div 16) + 1] \o digits[(n % 16) + 1]

\* the status command for node n with every byte as two hex digits
StatusCommandTwoDigits(n, digits) ==
    "AT+TEST=TXLRPKT,5A" \o TwoHex(n, digits) \o "11" \o "12"

\* C24: sendNodeStatusCommand(NodeId) emits, for every NodeId in 0..255,
\* exactly two commands: AT+TEST=TXLRPKT,5A followed by NodeId as two hex
\* digits (of either case) and 11 and 12, then AT+TEST=RXLRPKT.
C24_StatusCommandFormat ==
    [][ \A n \in NodeIds :
          sendNodeStatusCommand(n)
          => \E digits \in { LowerHexDigits, UpperHexDigits } :
                tx' = tx \o << StatusCommandTwoDigits(n, digits), "\r\n",
                               "AT+TEST=RXLRPKT", "\r\n" >> ]_vars

\* C25: a start marker '+' read in any framer state, idle or mid-frame,
\* resets the buffer (it then holds the marker alone) and sets
\* command_receiving without emitting what was accumulated; the line emitted
\* next holds only the bytes from the last '+' onward.
C25_StartMarkerResets ==
    /\ [][ ( op' = "onUartReceive" /\ LastRead' = "+" )
           => ( /\ command_data' = << "+" >>
                /\ command_receiving' = 1
                /\ EmittedLines' = EmittedLines ) ]_vars
    /\ [][ ( op' = "onUartReceive" /\ Len(EmittedLines') = Len(EmittedLines) + 1 )
           => LET line == EmittedLines'[Len(EmittedLines')].text
              IN  /\ line = SinceLastStart(rx)
                  /\ \A k \in 2..Len(line) : line[k] # "+" ]_vars

\* C25 witness: a start marker read mid-frame threw away "+a\r" unemitted
C25_Witness ==
    /\ op = "onUartReceive"
    /\ rx = << "+", "a", "\r", "+" >>
    /\ command_data = << "+" >>
    /\ command_receiving = 1
    /\ EmittedLines = << >>

\* C26: a completed line with "\"59" first at offset 10 clears the pending
\* command (waitingForResponse = false) and stays flagged ready
\* (command_ready = 1); a completed line without it leaves
\* waitingForResponse as it was, whether a command is pending or not.
C26_AcceptanceClearsPending ==
    /\ [][ ( op' = "onUartReceive" /\ Len(EmittedLines') = Len(EmittedLines) + 1 )
           => IF IndexOfStr(EmittedLines'[Len(EmittedLines')].text, ValidMarker) = 10
              THEN waitingForResponse' = FALSE /\ command_ready' = 1
              ELSE waitingForResponse' = waitingForResponse ]_vars
    /\ \A waiting \in BOOLEAN :
          /\ ValidateResponse(rx1, 1, waiting) = [ready |-> 1, waiting |-> FALSE]
          /\ \A data \in SeqsUpTo(Bytes, 3) :
                ValidateResponse(data, 1, waiting).waiting = waiting

\* C26 witness: the data line was completed and accepted
C26_Witness ==
    /\ op = "onUartReceive"
    /\ rx = DataLine
    /\ command_data = rx1
    /\ command_ready = 1
    /\ waitingForResponse = FALSE

\* the lines whose payload is 16 hex digits and a suffix, and each of them
\* with its payload cut after the 16th character
SuffixedLines == { Quoted(p) : p \in SuffixedPayloads \cup LongPayloads }
CutAt16 == [ l \in SuffixedLines |-> Quoted(SubSeq(PayloadOf(l), 1, 16)) ]

\* C27: what follows the 16th character of the payload does not count: a
\* line whose payload is 16 hex digits and a suffix without double quote
\* returns what the line without the suffix returns on the same registry
\* and stores the same record in the same slot.
C27_SuffixIgnored ==
    /\ \A l \in SuffixedLines : Hex16(l) /\ Len(PayloadOf(l)) > 16
    /\ [][ ( ParseStep /\ rawData' \in SuffixedLines )
           => /\ [ret |-> result', nodes |-> NodeData']
                     = parseAndStoreNodeResponse(NodeData, CutAt16[rawData'])
              /\ result' => \E i \in Slots : NodeData'[i] = DecodedRecord(CutAt16[rawData']) ]_vars

\* C27 witness: the first sample payload followed by "FFZ" stored the record
\* of the sample in slot 1, behind node 0x11
C27_Witness ==
    /\ op = "parseAndStoreNodeResponse"
    /\ rawData = Quoted(PayloadOf(rx1) \o << "F", "F", "Z" >>)
    /\ result = TRUE
    /\ NodeData[0].nodeId = 17
    /\ NodeData[1] = ScenarioARecord

\* C28: after every invocation of onUartReceive, command_ready = 1 implies
\* command_receiving = 0 and "\"59" at offset 10 of command_data; and as the
\* validation runs again on every byte while command_ready is set, the '+'
\* that follows an accepted line clears its ready flag.
C28_ReadyMeansAccepted ==
    /\ []( command_ready = 1
           => ( command_receiving = 0 /\ IndexOfStr(command_data, ValidMarker) = 10 ) )
    /\ [][ ( op' = "onUartReceive" /\ command_ready = 1 /\ LastRead' = "+" )
           => command_ready' = 0 ]_vars

\* C28 witness: the '+' read after the accepted data line cleared the flag
C28_Witness ==
    /\ op = "onUartReceive"
    /\ rx = DataLine \o << "+" >>
    /\ command_ready = 0
    /\ command_receiving = 1
    /\ command_data = << "+" >>

\* C29: after every invocation of onUartReceive, command_data is empty or
\* begins with '+' and holds no other '+' and no '\n'; every emitted line
\* begins with the start marker and keeps the '\r' read before the end marker.
C29_BufferShape ==
    /\ []( \/ command_data = << >>
           \/ /\ command_data[1] = "+"
              /\ \A k \in 2..Len(command_data) : command_data[k] \notin { "+", "\n" } )
    /\ []( \A k \in 1..Len(EmittedLines) :
              /\ Len(EmittedLines[k].text) >= 1
              /\ EmittedLines[k].text[1] = "+" )
    /\ [][ ( /\ op' = "onUartReceive"
             /\ Len(EmittedLines') = Len(EmittedLines) + 1
             /\ LastRead = "\r" )
           => LET line == EmittedLines'[Len(EmittedLines')].text
              IN  line[Len(line)] = "\r" ]_vars

\* C29 witness: the line "+a\r" emitted with its marker and its '\r'
C29_Witness ==
    /\ op = "onUartReceive"
    /\ rx = << "+", "a", "\r", "\n" >>
    /\ command_data = << "+", "a", "\r" >>
    /\ Len(EmittedLines) = 1
    /\ EmittedLines[1].text = << "+", "a", "\r" >>

\* the line of a record whose nodeId is the sentinel 0
ZeroIdLine ==
    Quoted(<< "5", "9", "0", "0", "1", "1", "B", "A", "1", "4", "1", "F", "1", "7", "2", "F" >>)

\* C30: a record whose nodeId is 0 never occupies a slot: the call returns
\* true iff some slot is empty, writes the fields into the lowest empty slot
\* and leaves the occupied slots as they were; the next new nonzero nodeId
\* gets that same slot; on a full registry the call returns false and
\* changes nothing.
C30_ZeroIdNeverOccupies ==
    /\ DecodedRecord(ZeroIdLine).nodeId = 0
    /\ [][ ( ParseStep /\ rawData' = ZeroIdLine )
           => IF FreeSlots(NodeData) # {}
              THEN LET i == FirstSlot(FreeSlots(NodeData))
                   IN  /\ result' = TRUE
                       /\ NodeData'[i] = DecodedRecord(ZeroIdLine)
                       /\ \A j \in Slots \ { i } : NodeData'[j] = NodeData[j]
                       /\ Occupied(NodeData') = Occupied(NodeData)
              ELSE result' = FALSE /\ NodeData' = NodeData ]_vars
    /\ [][ ( /\ ParseStep
             /\ rawData' \in { ScenarioCLines[k] : k \in 1..4 }
             /\ FreeSlots(NodeData) # {}
             /\ NodeData[FirstSlot(FreeSlots(NodeData))] = DecodedRecord(ZeroIdLine)
             /\ SlotsHolding(NodeData, DecodedRecord(rawData').nodeId) = {} )
           => NodeData'[FirstSlot(FreeSlots(NodeData))] = DecodedRecord(rawData') ]_vars

\* C30 witness: a record with nodeId 0 was written into slot 1, the lowest
\* empty slot behind node 0x10, and slot 1 still counts as empty
C30_Witness ==
    /\ op = "parseAndStoreNodeResponse"
    /\ rawData = ZeroIdLine
    /\ result = TRUE
    /\ NodeData[0].nodeId = 16
    /\ NodeData[1] = DecodedRecord(ZeroIdLine)
    /\ Occupied(NodeData) = { 0 }

====
